---- MODULE Spec2Model ----
(***************************************************************************)
(* Model of pdfcon's image extraction ("unpack") pipeline:                 *)
(*   filter_func, Unpack::process_xobject,                                 *)
(*   Unpack::find_xobject_images_in_page, Unpack::extract_images           *)
(*   (src/src/unpack.rs) and the thread clamp of get_command               *)
(*   (src/src/command.rs).                                                 *)
(*                                                                         *)
(* Four specifications share the module:                                   *)
(*   Spec / FairSpec : extract_images run by a pool of workers             *)
(*   SpecX           : process_xobject applied to one XObject              *)
(*   SpecF           : filter_func applied to one object                   *)
(*   SpecC           : get_command building the command                    *)
(***************************************************************************)
EXTENDS Integers, Sequences, FiniteSets, TLC

VARIABLES
    doc,                \* extract_images: the loaded Document (sequence of pages)
    threads,            \* size of the rayon pool (Unpack.threads)
    phase,              \* "off" | "map" | "aggregate" | "done"
    pstate,             \* per page: "pending" | "resolve" | "xobj" | "done"
    idx,                \* per page: next entry of the XObject dictionary
    worker,             \* per worker: the page it is processing, 0 when idle
    results,            \* per page: the closure's Result
    fs,                 \* the output directory: set of files [path, bytes, fn]
    writes,             \* history: every file creation [path, page]
    i,                  \* position of the aggregation loop over results
    error_encountered,  \* the flag of the aggregation loop
    log,                \* messages passed to error!()
    result,             \* what extract_images returned
    xin,                \* SpecX: the input of process_xobject
    xout,               \* SpecX: its outcome
    fin,                \* SpecF: the object given to filter_func
    fout,               \* SpecF: what filter_func returned
    cin,                \* SpecC: requested threads, physical cores, subcommand
    cout                \* SpecC: the command built by get_command

orchVars == <<doc, threads, phase, pstate, idx, worker, results, fs, writes,
              i, error_encountered, log, result>>
xVars == <<xin, xout>>
fVars == <<fin, fout>>
cVars == <<cin, cout>>
vars == <<orchVars, xVars, fVars, cVars>>


-----------------------------------------------------------------------------
(* Bounds of the model *)

MaxPages == 2       \* pages of a document in Spec
MaxThreads == 2     \* workers of the pool in Spec
MaxCores == 6       \* physical cores in SpecC
MaxRequested == 14  \* requested --threads values 0..MaxRequested in SpecC
Huge == 1000000     \* an absurdly large requested --threads value in SpecC
MaxFilters == 2     \* length of a Filter array, layers of deflate, in SpecX

-----------------------------------------------------------------------------
(* Results *)

OkResult == [ok |-> TRUE, err |-> "none"]
Err(kind) == [ok |-> FALSE, err |-> kind]
NotReturned == [ok |-> FALSE, err |-> "not returned"]

-----------------------------------------------------------------------------
(* Stream contents and the codec backend's decompress.  A content is some  *)
(* pixel or JPEG data wrapped in z layers of deflate; decompress removes   *)
(* one layer and fails on data that is not deflate-compressed.             *)

Content(data, z) == [data |-> data, z |-> z]

decompress(content) ==
    IF content.z > 0
    THEN [ok |-> TRUE, content |-> Content(content.data, content.z - 1)]
    ELSE [ok |-> FALSE, content |-> content]

-----------------------------------------------------------------------------
(* Decimal formatting of file names: a stem is a sequence of digits.       *)

RECURSIVE Digits(_)
Digits(n) == IF n < 10 THEN <<n>> ELSE Digits(n \div 10) \o <<n % 10>>

RECURSIVE ilog10(_)
ilog10(n) == IF n < 10 THEN 0 ELSE 1 + ilog10(n \div 10)

RECURSIVE PadZero(_, _)
PadZero(s, w) == IF Len(s) >= w THEN s ELSE PadZero(<<0>> \o s, w)

\* variant: the stem is formatted from total_pages instead of page_num
PaddedPathBug(page_num, total_pages, is_jpeg) ==
    [stem |-> PadZero(Digits(total_pages), ilog10(total_pages) + 1),
     ext  |-> IF is_jpeg THEN "jpg" ELSE "png"]

\* format!("{:0width$}.{}", page_num, ext, width = padding_width)
PaddedPath(page_num, total_pages, is_jpeg) ==
    [stem |-> PadZero(Digits(page_num), ilog10(total_pages) + 1),
     ext  |-> IF is_jpeg THEN "jpg" ELSE "png"]

\* format!("{:0>5}.png", page_num)
RawPath(page_num) == [stem |-> PadZero(Digits(page_num), 5), ext |-> "png"]

-----------------------------------------------------------------------------
(* lopdf objects as far as process_xobject looks at them.                  *)
(* An object is [t, s, a]: its variant, its bytes (Name, String) and its   *)
(* elements (Array); an array element is [t, s].                           *)

NameObj(s) == [t |-> "Name", s |-> s, a |-> <<>>]
StringObj(s) == [t |-> "String", s |-> s, a |-> <<>>]
ArrayObj(a) == [t |-> "Array", s |-> "", a |-> a]
IntegerObj == [t |-> "Integer", s |-> "", a |-> <<>>]
Absent == [t |-> "Absent", s |-> "", a |-> <<>>]
Elem(t, s) == [t |-> t, s |-> s]

\* Object::as_name, Object::as_str, Object::as_array
as_name(o) == [ok |-> o.t = "Name", v |-> o.s]
as_str(o) == [ok |-> o.t = "String", v |-> o.s]
as_array(o) == [ok |-> o.t = "Array", v |-> o.a]

\* variant: a Filter given as a string is read as no filter at all
FiltersStringDropped(f) ==
    IF f.t = "Absent" THEN [ok |-> TRUE, some |-> FALSE, list |-> <<>>]
    ELSE IF as_name(f).ok THEN [ok |-> TRUE, some |-> TRUE, list |-> <<as_name(f).v>>]
    ELSE IF as_str(f).ok THEN [ok |-> TRUE, some |-> FALSE, list |-> <<>>]
    ELSE IF ~as_array(f).ok THEN [ok |-> FALSE, some |-> FALSE, list |-> <<>>]
    ELSE IF \E k \in 1..Len(f.a) : f.a[k].t # "Name"
         THEN [ok |-> FALSE, some |-> FALSE, list |-> <<>>]
    ELSE [ok |-> TRUE, some |-> TRUE, list |-> [k \in 1..Len(f.a) |-> f.a[k].s]]

\* src/src/unpack.rs:65-84: the Filter attribute read into Option<Vec<..>>
Filters(f) ==
    IF f.t = "Absent" THEN [ok |-> TRUE, some |-> FALSE, list |-> <<>>]
    ELSE IF as_name(f).ok THEN [ok |-> TRUE, some |-> TRUE, list |-> <<as_name(f).v>>]
    ELSE IF as_str(f).ok THEN [ok |-> TRUE, some |-> TRUE, list |-> <<as_str(f).v>>]
    ELSE IF ~as_array(f).ok THEN [ok |-> FALSE, some |-> FALSE, list |-> <<>>]
    ELSE IF \E k \in 1..Len(f.a) : f.a[k].t # "Name"
         THEN [ok |-> FALSE, some |-> FALSE, list |-> <<>>]
    ELSE [ok |-> TRUE, some |-> TRUE, list |-> [k \in 1..Len(f.a) |-> f.a[k].s]]

\* src/src/unpack.rs:98-104: one turn of the loop over the reversed list.
\* acc is [ok, is_jpeg, content, trace]; a failed decompress returns early.
FilterStep(filter, acc) ==
    IF ~acc.ok THEN acc
    ELSE IF filter = "DCTDecode" THEN [acc EXCEPT !.is_jpeg = TRUE]
    ELSE IF filter = "FlateDecode"
         THEN [acc EXCEPT !.ok = decompress(acc.content).ok,
                          !.content = decompress(acc.content).content,
                          !.trace = acc.trace \o <<"decompress">>]
    ELSE acc

\* for filter in filter_list.into_iter().rev()
RECURSIVE ApplyFilters(_, _)
ApplyFilters(list, acc) ==
    IF list = <<>> THEN acc
    ELSE ApplyFilters(SubSeq(list, 1, Len(list) - 1),
                      FilterStep(list[Len(list)], acc))

-----------------------------------------------------------------------------
(* An XObject entry of a page: the reference held by the XObject           *)
(* dictionary and the stream it resolves to.                               *)
(*   ref     : "ok" | "notref" | "dangling" | "notstream"                  *)
(*   subtype : "Image" | "Form" | "missing" | "notname"                    *)
(*   filter  : the Filter object, Absent when the key is missing           *)
(*   attrs   : Width, Height, BitsPerComponent, ColorSpace, each           *)
(*             "ok" | "missing" | "badtype"                                *)
(*   content : stream.content                                              *)
(*   saveOk  : whether the codec backend's writer succeeds                 *)

AttrNames == <<"Width", "Height", "BitsPerComponent", "ColorSpace">>

AllAttrs == [n \in {"Width", "Height", "BitsPerComponent", "ColorSpace"} |-> "ok"]

XObject(ref, subtype, filter, attrs, content, saveOk) ==
    [ref |-> ref, subtype |-> subtype, filter |-> filter, attrs |-> attrs,
     content |-> content, saveOk |-> saveOk]

\* The outcome of one call of process_xobject: its Result, the calls it made
\* in order, and the files it created.
Outcome(res, trace, files) == [res |-> res, trace |-> trace, files |-> files]

File(path, bytes, fn) == [path |-> path, bytes |-> bytes, fn |-> fn]

\* stream.dict.get(b"Width")?.as_i64()? ... get(b"ColorSpace")?.as_name()?
\* returns the attributes read in order up to and including the first bad one
RECURSIVE ReadAttrs(_, _)
ReadAttrs(attrs, k) ==
    IF k > Len(AttrNames) THEN <<>>
    ELSE IF attrs[AttrNames[k]] # "ok" THEN <<AttrNames[k]>>
    ELSE <<AttrNames[k]>> \o ReadAttrs(attrs, k + 1)

AttrsOk(attrs) == \A k \in 1..Len(AttrNames) : attrs[AttrNames[k]] = "ok"

AttrError(attrs) ==
    LET bad == CHOOSE k \in 1..Len(AttrNames) :
                   /\ attrs[AttrNames[k]] # "ok"
                   /\ \A j \in 1..(k - 1) : attrs[AttrNames[j]] = "ok"
    IN  IF attrs[AttrNames[bad]] = "missing" THEN "DictKey" ELSE "ObjectType"

\* pdf_image::save_jpeg / pdf_image::encode_and_save_png: the last call
Save(x, trace, fn, path, bytes) ==
    IF x.saveOk
    THEN Outcome(OkResult, trace \o <<fn>>, <<File(path, bytes, fn)>>)
    ELSE Outcome(Err("Codec"), trace \o <<fn>>, <<>>)

\* variant: the PNG writer is called before the attributes are read
EncodePngWriteFirst(x, trace, path, bytes) ==
    IF AttrsOk(x.attrs)
    THEN Save(x, trace \o ReadAttrs(x.attrs, 1), "encode_and_save_png", path, bytes)
    ELSE Outcome(Err(AttrError(x.attrs)),
                 trace \o <<"encode_and_save_png">> \o ReadAttrs(x.attrs, 1),
                 <<File(path, bytes, "encode_and_save_png")>>)

\* src/src/unpack.rs:118-133 and 140-157: the attributes, then the PNG writer
EncodePng(x, trace, path, bytes) ==
    IF AttrsOk(x.attrs)
    THEN Save(x, trace \o ReadAttrs(x.attrs, 1), "encode_and_save_png", path, bytes)
    ELSE Outcome(Err(AttrError(x.attrs)), trace \o ReadAttrs(x.attrs, 1), <<>>)

\* src/src/unpack.rs:86-159: match filters { Some(filter_list) => .., None => .. }
Decode(x, page_num, total_pages, trace) ==
    LET fl == Filters(x.filter)
    IN  IF ~fl.ok THEN Outcome(Err("ObjectType"), trace, <<>>)
        ELSE IF fl.some
        THEN LET acc == ApplyFilters(fl.list,
                            [ok |-> TRUE, is_jpeg |-> FALSE,
                             content |-> x.content, trace |-> trace])
                 path == PaddedPath(page_num, total_pages, acc.is_jpeg)
             IN  IF ~acc.ok THEN Outcome(Err("Decompress"), acc.trace, <<>>)
                 ELSE IF acc.is_jpeg
                      THEN Save(x, acc.trace, "save_jpeg", path, acc.content)
                 ELSE EncodePng(x, acc.trace, path, acc.content)
        ELSE EncodePng(x, trace, RawPath(page_num), x.content)

\* src/src/unpack.rs:42-162
process_xobject(x, page_num, total_pages) ==
    IF x.ref = "notref" THEN Outcome(Err("ObjectType"), <<"as_reference">>, <<>>)
    ELSE IF x.ref = "dangling"
         THEN Outcome(Err("ObjectNotFound"), <<"as_reference", "get_object">>, <<>>)
    ELSE IF x.ref = "notstream"
         THEN Outcome(Err("ObjectType"),
                      <<"as_reference", "get_object", "as_stream">>, <<>>)
    ELSE LET t == <<"as_reference", "get_object", "as_stream", "Subtype">>
         IN  IF x.subtype = "missing" THEN Outcome(Err("DictKey"), t, <<>>)
             ELSE IF x.subtype = "notname" THEN Outcome(Err("ObjectType"), t, <<>>)
             ELSE IF x.subtype # "Image" THEN Outcome(OkResult, t, <<>>)
             ELSE Decode(x, page_num, total_pages, t \o <<"Filter">>)

-----------------------------------------------------------------------------
(* filter_func, src/src/unpack.rs:20-39.                                   *)
(* An object is [kind, typeName, keys]: its variant, what type_name()      *)
(* yields ("" when it fails) and, for a dictionary, the keys it holds.     *)

\* crate::constants::IGNORE_LIST
IGNORE_LIST == {"Outlines", "Metadata"}

\* the keys filter_func removes, src/src/unpack.rs:26-32
RemovedKeys ==
    {"Produce", "ModDate", "Creator", "ProcSet", "Procset", "MediaBox", "Annots"}

FSome(obj) == [tag |-> "Some", obj |-> obj]
FNone == [tag |-> "None", obj |-> [kind |-> "", typeName |-> "", keys |-> {}]]
NotRun == [tag |-> "NotRun", obj |-> [kind |-> "", typeName |-> "", keys |-> {}]]

filter_func(object) ==
    IF object.typeName \in IGNORE_LIST THEN FNone
    ELSE IF object.kind = "Dictionary"
         THEN IF object.keys \ RemovedKeys = {} THEN FNone
              ELSE FSome([object EXCEPT !.keys = object.keys \ RemovedKeys])
    ELSE FSome(object)

-----------------------------------------------------------------------------
(* get_command, src/src/command.rs:14-58                                   *)

\* crate::constants::physical_cores(): the machine's physical core count
physical_cores == 1..MaxCores

\* a clamp that bounds from above only
ClampNoLower(v, lo, hi) ==
    IF lo > hi THEN [panic |-> TRUE, v |-> 0]
    ELSE [panic |-> FALSE, v |-> IF v > hi THEN hi ELSE v]

\* Ord::clamp: panics when min > max
clamp(v, lo, hi) ==
    IF lo > hi THEN [panic |-> TRUE, v |-> 0]
    ELSE [panic |-> FALSE, v |-> IF v < lo THEN lo ELSE IF v > hi THEN hi ELSE v]

\* .get_one::<usize>("THREADS").copied().unwrap_or(total_physical / 2)
\*  .clamp(1usize, total_physical * 2)
\* variant: .min(total_physical * 2) in place of the clamp
ThreadCountMinOnly(requested, total_physical) ==
    ClampNoLower(IF requested.given THEN requested.n ELSE total_physical \div 2,
                 1, total_physical * 2)

ThreadCount(requested, total_physical) ==
    clamp(IF requested.given THEN requested.n ELSE total_physical \div 2,
          1, total_physical * 2)

get_command(in) ==
    LET t == ThreadCount(in.requested, in.cores)
    IN  IF t.panic THEN [tag |-> "panic", threads |-> 0]
        ELSE IF in.sub = "pack" THEN [tag |-> "PACK", threads |-> t.v]
        ELSE [tag |-> "UNPACK", threads |-> t.v]

-----------------------------------------------------------------------------
(* Documents of the orchestrator's specification *)

Page(obj, resources, xobject, entries) ==
    [obj |-> obj, resources |-> resources, xobject |-> xobject, entries |-> entries]

XJpeg == XObject("ok", "Image", NameObj("DCTDecode"), AllAttrs, Content("jpeg", 0), TRUE)
XFlate == XObject("ok", "Image", ArrayObj(<<Elem("Name", "FlateDecode")>>), AllAttrs,
                  Content("pixels", 1), TRUE)
XRaw == XObject("ok", "Image", Absent, AllAttrs, Content("raw", 0), TRUE)
XForm == XObject("ok", "Form", Absent, AllAttrs, Content("form", 0), TRUE)
XDangling == XObject("dangling", "Image", Absent, AllAttrs, Content("none", 0), TRUE)

EntryLists ==
    {<<>>, <<XJpeg>>, <<XFlate>>, <<XRaw>>, <<XForm>>, <<XDangling>>,
     <<XJpeg, XFlate>>, <<XFlate, XRaw>>, <<XJpeg, XDangling>>, <<XForm, XJpeg>>}

PageKinds ==
    {Page("notdict", "absent", "absent", <<>>),
     Page("dict", "absent", "absent", <<>>),
     Page("dict", "notdict", "absent", <<>>),
     Page("dict", "dict", "absent", <<>>),
     Page("dict", "dict", "notdict", <<>>)}
    \cup {Page("dict", "dict", "dict", e) : e \in EntryLists}

Documents == UNION {[1..n -> PageKinds] : n \in 0..MaxPages}

\* the documents of FairSpec: pages that fail before, while and after
\* writing, and pages that succeed
FairPageKinds ==
    {Page("notdict", "absent", "absent", <<>>),
     Page("dict", "notdict", "absent", <<>>),
     Page("dict", "dict", "dict", <<XJpeg>>),
     Page("dict", "dict", "dict", <<XFlate, XRaw>>),
     Page("dict", "dict", "dict", <<XJpeg, XDangling>>)}

FairDocuments == UNION {[1..n -> FairPageKinds] : n \in 0..MaxPages}

Pages == 1..Len(doc)

-----------------------------------------------------------------------------
(* Inputs of SpecX, SpecF and SpecC *)

FilterNames == {"DCTDecode", "FlateDecode", "LZWDecode"}

FilterElems == {Elem("Name", f) : f \in FilterNames} \cup {Elem("Integer", "")}

FilterObjects ==
    {Absent, IntegerObj}
    \cup {NameObj(f) : f \in FilterNames}
    \cup {StringObj(f) : f \in FilterNames}
    \cup {ArrayObj(a) : a \in UNION {[1..n -> FilterElems] : n \in 0..MaxFilters}}

AttrConfigs ==
    {AllAttrs, [AllAttrs EXCEPT !["Width"] = "missing"],
     [AllAttrs EXCEPT !["Height"] = "missing"],
     [AllAttrs EXCEPT !["BitsPerComponent"] = "badtype"],
     [AllAttrs EXCEPT !["ColorSpace"] = "missing"],
     [AllAttrs EXCEPT !["Width"] = "badtype"]}

XObjects ==
    {XObject(r, "Image", Absent, AllAttrs, Content("img", 0), TRUE) :
        r \in {"notref", "dangling", "notstream"}}
    \cup {XObject("ok", s, Absent, AllAttrs, Content("img", 0), TRUE) :
        s \in {"Form", "missing", "notname"}}
    \cup {XObject("ok", "Image", f, a, Content("img", z), ok) :
        f \in FilterObjects, a \in AttrConfigs, z \in 0..MaxFilters, ok \in BOOLEAN}

\* (page_num, total_pages): the pages of documents of 1, 9, 12 and 150 pages
PageNumbers ==
    {<<1, 1>>, <<1, 9>>, <<9, 9>>, <<1, 12>>, <<3, 12>>, <<12, 12>>,
     <<1, 150>>, <<42, 150>>, <<150, 150>>}

XInputs ==
    {[x |-> x, page_num |-> pn[1], total_pages |-> pn[2]] :
        x \in XObjects, pn \in PageNumbers}

DictKeys ==
    {"Producer", "Produce", "ModDate", "Creator", "ProcSet", "Procset",
     "MediaBox", "Annots", "Kids", "Length"}

FObjects ==
    {[kind |-> "Dictionary", typeName |-> t, keys |-> k] :
        t \in {""}, k \in SUBSET DictKeys}
    \cup {[kind |-> "Dictionary", typeName |-> t, keys |-> k \cup {"Type"}] :
        t \in {"Page", "Outlines"}, k \in SUBSET DictKeys}
    \cup {[kind |-> k, typeName |-> t, keys |-> {}] :
        k \in {"Stream"}, t \in {"", "XObject", "Metadata"}}
    \cup {[kind |-> "Integer", typeName |-> "", keys |-> {}]}

Requests ==
    {[given |-> FALSE, n |-> 0]}
    \cup {[given |-> TRUE, n |-> n] : n \in (0..MaxRequested) \cup {Huge}}

CInputs ==
    {[requested |-> r, cores |-> c, sub |-> s] :
        r \in Requests, c \in physical_cores, s \in {"pack", "unpack"}}

NoX == [x |-> XForm, page_num |-> 1, total_pages |-> 1]
NoF == [kind |-> "", typeName |-> "", keys |-> {}]
NoC == [requested |-> [given |-> FALSE, n |-> 0], cores |-> 1, sub |-> "none"]
NoOut == Outcome(OkResult, <<>>, <<>>)
NoCmd == [tag |-> "NotRun", threads |-> 0]

OrchOff ==
    /\ doc = <<>> /\ threads = 1 /\ phase = "off"
    /\ pstate = <<>> /\ idx = <<>> /\ worker = <<0>> /\ results = <<>>
    /\ fs = {} /\ writes = {} /\ i = 1 /\ error_encountered = FALSE
    /\ log = <<>> /\ result = NotReturned

XOff == xin = NoX /\ xout = NoOut
FOff == fin = NoF /\ fout = NotRun
COff == cin = NoC /\ cout = NoCmd

-----------------------------------------------------------------------------
(* Spec: Unpack::extract_images, src/src/unpack.rs:180-222                 *)

\* extract_images is entered with a loaded document and an idle pool
Entered(documents) ==
    /\ doc \in documents
    /\ threads \in 1..MaxThreads
    /\ phase = "map"
    /\ pstate = [p \in 1..Len(doc) |-> "pending"]
    /\ idx = [p \in 1..Len(doc) |-> 1]
    /\ worker = [w \in 1..threads |-> 0]
    /\ results = [p \in 1..Len(doc) |-> OkResult]
    /\ fs = {}
    /\ writes = {}
    /\ i = 1
    /\ error_encountered = FALSE
    /\ log = <<>>
    /\ result = NotReturned
    /\ XOff /\ FOff /\ COff

Init == Entered(Documents)

\* the page's closure returns r: the worker goes back to the pool
PageReturns(w, p, r) ==
    /\ results' = [results EXCEPT ![p] = r]
    /\ pstate' = [pstate EXCEPT ![p] = "done"]
    /\ worker' = [worker EXCEPT ![w] = 0]

\* a file created in the output directory replaces the file of the same path
WriteFiles(files, p) ==
    /\ fs' = {f \in fs : \A k \in 1..Len(files) : files[k].path # f.path}
             \cup {files[k] : k \in 1..Len(files)}
    /\ writes' = writes \cup {[path |-> files[k].path, page |-> p] : k \in 1..Len(files)}

\* variant: no page is started once some page has failed
StartPageFailFast(w, p) ==
    /\ phase = "map"
    /\ worker[w] = 0
    /\ pstate[p] = "pending"
    /\ \A q \in Pages : results[q].ok
    /\ IF doc[p].obj # "dict"
       THEN PageReturns(w, p, Err("ObjectType"))
       ELSE /\ pstate' = [pstate EXCEPT ![p] = "resolve"]
            /\ worker' = [worker EXCEPT ![w] = p]
            /\ UNCHANGED results
    /\ UNCHANGED <<doc, threads, phase, idx, fs, writes, i, error_encountered,
                   log, result, xVars, fVars, cVars>>

\* src/src/unpack.rs:190-198: a worker takes a page and reads its dictionary
StartPage(w, p) ==
    /\ phase = "map"
    /\ worker[w] = 0
    /\ pstate[p] = "pending"
    /\ IF doc[p].obj # "dict"
       THEN PageReturns(w, p, Err("ObjectType"))
       ELSE /\ pstate' = [pstate EXCEPT ![p] = "resolve"]
            /\ worker' = [worker EXCEPT ![w] = p]
            /\ UNCHANGED results
    /\ UNCHANGED <<doc, threads, phase, idx, fs, writes, i, error_encountered,
                   log, result, xVars, fVars, cVars>>

\* src/src/unpack.rs:172-173 (and 177 when the XObject dictionary is empty)
ResolveXObjects(w) ==
    /\ phase = "map"
    /\ worker[w] # 0
    /\ pstate[worker[w]] = "resolve"
    /\ LET p == worker[w]
       IN  IF doc[p].resources = "absent" THEN PageReturns(w, p, Err("DictKey"))
           ELSE IF doc[p].resources = "notdict" THEN PageReturns(w, p, Err("ObjectType"))
           ELSE IF doc[p].xobject = "absent" THEN PageReturns(w, p, Err("DictKey"))
           ELSE IF doc[p].xobject = "notdict" THEN PageReturns(w, p, Err("ObjectType"))
           ELSE IF doc[p].entries = <<>> THEN PageReturns(w, p, OkResult)
           ELSE /\ pstate' = [pstate EXCEPT ![p] = "xobj"]
                /\ UNCHANGED <<results, worker>>
    /\ UNCHANGED <<doc, threads, phase, idx, fs, writes, i, error_encountered,
                   log, result, xVars, fVars, cVars>>

\* src/src/unpack.rs:174-177: one turn of the loop over the XObject dictionary
ProcessEntry(w) ==
    /\ phase = "map"
    /\ worker[w] # 0
    /\ pstate[worker[w]] = "xobj"
    /\ LET p == worker[w]
           out == process_xobject(doc[p].entries[idx[p]], p, Len(doc))
       IN  /\ WriteFiles(out.files, p)
           /\ IF ~out.res.ok THEN PageReturns(w, p, out.res) /\ UNCHANGED idx
              ELSE IF idx[p] = Len(doc[p].entries)
                   THEN PageReturns(w, p, OkResult) /\ UNCHANGED idx
              ELSE /\ idx' = [idx EXCEPT ![p] = idx[p] + 1]
                   /\ UNCHANGED <<results, pstate, worker>>
    /\ UNCHANGED <<doc, threads, phase, i, error_encountered, log, result,
                   xVars, fVars, cVars>>

\* src/src/unpack.rs:202-208: collect() joins the workers
Collect ==
    /\ phase = "map"
    /\ \A p \in Pages : pstate[p] = "done"
    /\ phase' = "aggregate"
    /\ i' = 1
    /\ error_encountered' = FALSE
    /\ UNCHANGED <<doc, threads, pstate, idx, worker, results, fs, writes, log,
                   result, xVars, fVars, cVars>>

\* src/src/unpack.rs:209-217: one turn of the loop over the results
LogResult ==
    /\ phase = "aggregate"
    /\ i <= Len(results)
    /\ IF results[i].ok
       THEN UNCHANGED <<error_encountered, log>>
       ELSE /\ error_encountered' = TRUE
            /\ log' = Append(log, results[i].err)
    /\ i' = i + 1
    /\ UNCHANGED <<doc, threads, phase, pstate, idx, worker, results, fs, writes,
                   result, xVars, fVars, cVars>>

\* variant: the first page's own error is returned
ReturnFirstCause ==
    /\ phase = "aggregate"
    /\ i > Len(results)
    /\ result' = IF error_encountered THEN Err(log[1]) ELSE OkResult
    /\ phase' = "done"
    /\ UNCHANGED <<doc, threads, pstate, idx, worker, results, fs, writes, i,
                   error_encountered, log, xVars, fVars, cVars>>

\* src/src/unpack.rs:218-221
Return ==
    /\ phase = "aggregate"
    /\ i > Len(results)
    /\ result' = IF error_encountered THEN Err("UnpackError") ELSE OkResult
    /\ phase' = "done"
    /\ UNCHANGED <<doc, threads, pstate, idx, worker, results, fs, writes, i,
                   error_encountered, log, xVars, fVars, cVars>>

Next ==
    \/ \E w \in 1..threads, p \in Pages : StartPage(w, p)
    \/ \E w \in 1..threads : ResolveXObjects(w)
    \/ \E w \in 1..threads : ProcessEntry(w)
    \/ Collect
    \/ LogResult
    \/ Return

Spec == Init /\ [][Next]_vars

\* every worker of the pool runs until the page list is exhausted, and the
\* calling thread runs the aggregation loop to its end
InitFair == Entered(FairDocuments)

FairSpec == InitFair /\ [][Next]_vars /\ WF_vars(Next)

-----------------------------------------------------------------------------
(* SpecX: process_xobject applied to one XObject *)

InitX == OrchOff /\ FOff /\ COff /\ xin \in XInputs /\ xout = NoOut

CallProcessXObject ==
    /\ xout = NoOut
    /\ xout' = process_xobject(xin.x, xin.page_num, xin.total_pages)
    /\ UNCHANGED <<xin, orchVars, fVars, cVars>>

NextX == CallProcessXObject

SpecX == InitX /\ [][NextX]_vars

-----------------------------------------------------------------------------
(* SpecF: filter_func applied to one object *)

InitF == OrchOff /\ XOff /\ COff /\ fin \in FObjects /\ fout = NotRun

CallFilterFunc ==
    /\ fout = NotRun
    /\ fout' = filter_func(fin)
    /\ UNCHANGED <<fin, orchVars, xVars, cVars>>

NextF == CallFilterFunc

SpecF == InitF /\ [][NextF]_vars

-----------------------------------------------------------------------------
(* SpecC: get_command building the command *)

InitC == OrchOff /\ XOff /\ FOff /\ cin \in CInputs /\ cout = NoCmd

CallGetCommand ==
    /\ cout = NoCmd
    /\ cout' = get_command(cin)
    /\ UNCHANGED <<cin, orchVars, xVars, fVars>>

NextC == CallGetCommand

SpecC == InitC /\ [][NextC]_vars

-----------------------------------------------------------------------------
(* What one page, and the whole document, leave in the output directory    *)
(* when the pages are processed one after the other in page order.         *)

Overwrite(files, new) ==
    {f \in files : \A k \in 1..Len(new) : new[k].path # f.path}
    \cup {new[k] : k \in 1..Len(new)}

RECURSIVE EntriesRun(_, _, _)
EntriesRun(p, k, files) ==
    IF k > Len(doc[p].entries) THEN files
    ELSE LET out == process_xobject(doc[p].entries[k], p, Len(doc))
         IN  IF out.res.ok THEN EntriesRun(p, k + 1, Overwrite(files, out.files))
             ELSE Overwrite(files, out.files)

ReachesEntries(p) ==
    doc[p].obj = "dict" /\ doc[p].resources = "dict" /\ doc[p].xobject = "dict"

PageRun(p, files) == IF ReachesEntries(p) THEN EntriesRun(p, 1, files) ELSE files

RECURSIVE SequentialRun(_, _)
SequentialRun(p, files) ==
    IF p > Len(doc) THEN files ELSE SequentialRun(p + 1, PageRun(p, files))

AllPagesDone == \A p \in Pages : pstate[p] = "done"

-----------------------------------------------------------------------------
(* C1: a failing page never stops another page.  Under every interleaving  *)
(* of the workers the run ends with every page attempted, and every page   *)
(* whose own result is Ok has its output files in the output directory.    *)
C1_IsolateAndContinue ==
    <>[](/\ phase = "done"
         /\ AllPagesDone
         /\ \A p \in Pages : results[p].ok => PageRun(p, {}) \subseteq fs)

\* a run that ended with a failed page and a successful page's file written
C1_Witness ==
    /\ phase = "done"
    /\ \E p, q \in Pages :
          /\ ~results[p].ok
          /\ results[q].ok
          /\ PageRun(q, {}) # {}
          /\ PageRun(q, {}) \subseteq fs

(* C2: extract_images returns the aggregate UnpackError exactly when some  *)
(* page's result is a failure and Ok otherwise; it returns only after all  *)
(* pages have completed; the error it returns is no page's own cause; and  *)
(* no file that was written is removed.                                    *)
C2_AggregateError ==
    /\ result # NotReturned => phase = "done" /\ AllPagesDone
    /\ phase = "done" =>
          /\ result = Err("UnpackError") <=> \E p \in Pages : ~results[p].ok
          /\ result = OkResult <=> \A p \in Pages : results[p].ok
          /\ \A p \in Pages : ~results[p].ok => result.err # results[p].err
    /\ \A wr \in writes : \E f \in fs : f.path = wr.path

\* a run that returned the aggregate error while a page's file is on disk
C2_Witness ==
    /\ phase = "done"
    /\ result = Err("UnpackError")
    /\ \E p \in Pages : results[p].ok /\ \E wr \in writes : wr.page = p
    /\ fs # {}

\* a document none of whose pages holds an image resource
NoImageResources ==
    \A p \in Pages :
       /\ doc[p].obj = "dict"
       /\ doc[p].resources \in {"absent", "dict"}
       /\ doc[p].resources = "dict" => doc[p].xobject \in {"absent", "dict"}
       /\ \A k \in 1..Len(doc[p].entries) :
             doc[p].entries[k].ref = "ok" /\ doc[p].entries[k].subtype = "Form"

(* C3: for a document with zero image resources the run succeeds and       *)
(* writes no file; a page without a Resources key, or whose Resources has  *)
(* no XObject key, counts as a page with no images.                        *)
C3_NoImagesSucceeds ==
    (phase = "done" /\ NoImageResources) => (result = OkResult /\ fs = {})

(* C8: no two different pages ever write the same output path, and the     *)
(* files left by the run are those of processing the pages one by one in   *)
(* page order, whatever the order in which the workers ran.                *)
C8_DeterministicFiles ==
    /\ \A a, b \in writes : a.path = b.path => a.page = b.page
    /\ phase = "done" => fs = SequentialRun(1, {})

\* two workers, two pages that both wrote a file
C8_Witness ==
    /\ phase = "done"
    /\ threads >= 2
    /\ \E a, b \in writes : a.page # b.page
    /\ fs = SequentialRun(1, {})

-----------------------------------------------------------------------------
(* Claims about process_xobject, checked under SpecX *)

Ran == xout # NoOut

Writers == {"save_jpeg", "encode_and_save_png"}

WriterCalls == {k \in 1..Len(xout.trace) : xout.trace[k] \in Writers}

\* the stream is an image whose Filter attribute was read into a list
FilterListRead ==
    /\ xin.x.ref = "ok"
    /\ xin.x.subtype = "Image"
    /\ Filters(xin.x.filter).ok
    /\ Filters(xin.x.filter).some

HasUnsupportedFilter ==
    /\ FilterListRead
    /\ \E k \in 1..Len(Filters(xin.x.filter).list) :
          Filters(xin.x.filter).list[k] \notin {"DCTDecode", "FlateDecode"}

(* C4: an image stream whose filter list holds an identifier other than    *)
(* DCTDecode and FlateDecode makes process_xobject return an error and     *)
(* write no file.                                                          *)
C4_UnsupportedFilterFails ==
    (Ran /\ HasUnsupportedFilter) => (~xout.res.ok /\ xout.files = <<>>)

(* C5: every file process_xobject writes, on every branch, is named by the *)
(* page number zero-padded to the number of decimal digits of the total    *)
(* page count.                                                             *)
C5_PaddingWidth ==
    Ran => \A k \in 1..Len(xout.files) :
              xout.files[k].path.stem =
                  PadZero(Digits(xin.page_num), Len(Digits(xin.total_pages)))

SameOutcome(a, b) == a.res = b.res /\ a.files = b.files

WithFilter(f) ==
    process_xobject([xin.x EXCEPT !.filter = f], xin.page_num, xin.total_pages)

(* C6: a single filter identifier given as a name, as a string or as a     *)
(* one-element array of names gives process_xobject the same outcome: the  *)
(* same result, format, output path and bytes handed to the writer.        *)
C6_FilterShapes ==
    (Ran /\ xin.x.ref = "ok" /\ xin.x.subtype = "Image" /\ xin.x.filter.t = "Name") =>
        /\ SameOutcome(xout, WithFilter(StringObj(xin.x.filter.s)))
        /\ SameOutcome(xout, WithFilter(ArrayObj(<<Elem("Name", xin.x.filter.s)>>)))

\* a stream with a single FlateDecode name that was decoded and written
C6_Witness ==
    /\ Ran
    /\ xin.x.ref = "ok" /\ xin.x.subtype = "Image"
    /\ xin.x.filter = NameObj("FlateDecode")
    /\ Len(xout.files) = 1
    /\ xout.files[1].path.ext = "png"
    /\ xout.files[1].bytes = Content("img", 0)

(* C10: the call of the backend writer is the last step of process_xobject *)
(* and happens at most once; a non-image XObject causes no write; and when *)
(* reference resolution, subtype or filter reading, decompression or a     *)
(* required image attribute fails, the error is returned with no write     *)
(* attempted.                                                              *)
C10_WriteIsLast ==
    Ran =>
        /\ Cardinality(WriterCalls) <= 1
        /\ \A k \in WriterCalls : k = Len(xout.trace)
        /\ Len(xout.files) <= Cardinality(WriterCalls)
        /\ (xin.x.ref = "ok" /\ xin.x.subtype = "Form") =>
               (WriterCalls = {} /\ xout.files = <<>> /\ xout.res.ok)
        /\ xout.res.err \in {"ObjectType", "ObjectNotFound", "DictKey", "Decompress"} =>
               (WriterCalls = {} /\ xout.files = <<>>)

\* a PNG-bound stream that was decompressed and then lacks an attribute
C10_Witness ==
    /\ Ran
    /\ xout.res = Err("DictKey")
    /\ \E k \in 1..Len(xout.trace) : xout.trace[k] = "decompress"
    /\ \E k \in 1..Len(xout.trace) : xout.trace[k] = "Height"
    /\ WriterCalls = {}

-----------------------------------------------------------------------------
(* Claim about filter_func, checked under SpecF *)

MetadataKeys == {"Producer", "ModDate", "Creator", "ProcSet", "MediaBox", "Annots"}

(* C7: when filter_func keeps a dictionary, the kept dictionary holds none *)
(* of the metadata keys Producer, ModDate, Creator, ProcSet, MediaBox,     *)
(* Annots and at least one other key; a dictionary of metadata keys only,  *)
(* or an object whose type is in the ignore set, is dropped.               *)
C7_MetadataRemoved ==
    (fout.tag # "NotRun" /\ fin.kind = "Dictionary") =>
        /\ fout.tag = "Some" =>
              /\ fout.obj.keys \cap MetadataKeys = {}
              /\ fout.obj.keys \ MetadataKeys # {}
        /\ (fin.keys \subseteq MetadataKeys \/ fin.typeName \in IGNORE_LIST) =>
              fout.tag = "None"

-----------------------------------------------------------------------------
(* Claim about get_command, checked under SpecC *)

(* C9: whatever thread count is requested (none, 0, or very large) and     *)
(* whatever the physical core count, building the Unpack command does not  *)
(* panic and its threads value lies in [1, 2 * physical cores].            *)
C9_ThreadsClamped ==
    (cout # NoCmd /\ cin.sub = "unpack") =>
        /\ cout.tag = "UNPACK"
        /\ 1 <= cout.threads
        /\ cout.threads <= 2 * cin.cores

\* --threads 0 and --threads Huge were both clamped
C9_Witness ==
    /\ cout.tag = "UNPACK"
    /\ \/ cin.requested = [given |-> TRUE, n |-> 0] /\ cout.threads = 1
       \/ /\ cin.requested = [given |-> TRUE, n |-> Huge]
          /\ cout.threads = 2 * cin.cores

====
